---- MODULE Spec2Model ----
(***************************************************************************)
(* Model of packages/react-resizable-panels/src/utils/group.ts:            *)
(* adjustByDelta, safeResizePanel, panelsMapToSortedArray and              *)
(* callPanelCallbacks, driven by a panel group that commits each returned  *)
(* layout.  Sizes and deltas are percentages on an integer grid.           *)
(***************************************************************************)
EXTENDS Integers, Sequences, FiniteSets, TLC

VARIABLES panels, sizes, panelSizeBeforeCollapse, mounted, last, calls, lastCollapse

vars == <<panels, sizes, panelSizeBeforeCollapse, mounted, last, calls, lastCollapse>>

\* ---------------------------------------------------------------- bounds
\* Largest |delta| of one resize event, in steps of 10 percent.
MaxSteps == 3

\* Number of significant digits of Number.prototype.toPrecision (../constants).
PRECISION == 10

\* ---------------------------------------------------------------- helpers
Min(x, y) == IF x < y THEN x ELSE y

Max(x, y) == IF x > y THEN x ELSE y

Abs(x) == IF x < 0 THEN 0 - x ELSE x

RECURSIVE SumSeq(_)
SumSeq(s) == IF s = <<>> THEN 0 ELSE Head(s) + SumSeq(Tail(s))

Reverse(s) == [i \in 1..Len(s) |-> s[Len(s) + 1 - i]]

\* Decimal digits of a natural number as character codes ('0' = 48).
RECURSIVE Digits(_)
Digits(n) == IF n < 10 THEN <<48 + n>> ELSE Digits(n \div 10) \o <<48 + (n % 10)>>

Zeros(k) == [i \in 1..k |-> 48]

\* Number.prototype.toPrecision for an integer of fewer than p digits:
\* sign ('-' = 45), the digits, '.' (46) and zeros up to p significant digits.
ToPrecision(n, p) ==
  LET ds == Digits(Abs(n))
      body == IF Len(ds) < p THEN ds \o <<46>> \o Zeros(p - Len(ds)) ELSE ds
  IN IF n < 0 THEN <<45>> \o body ELSE body

\* The >= of two JavaScript strings: code-unit lexicographic order.
RECURSIVE StrGeq(_, _)
StrGeq(s, t) ==
  IF t = <<>> THEN TRUE
  ELSE IF s = <<>> THEN FALSE
  ELSE IF Head(s) # Head(t) THEN Head(s) > Head(t)
  ELSE StrGeq(Tail(s), Tail(t))

\* ---------------------------------------------------------------- data
Ids == {"a", "b", "c"}

Events == {"mousemove", "keydown"}

IsKeyboardEvent(event) == event \in {"keydown", "keyup"}

Panel(id, order, minSize, maxSize, collapsible) ==
  [id |-> id, order |-> order, minSize |-> minSize, maxSize |-> maxSize,
   collapsible |-> collapsible, onResize |-> TRUE, onCollapse |-> TRUE]

PanelConfigs ==
  { { Panel("a", 1, 10, 60, FALSE), Panel("b", 2, 20, 100, FALSE), Panel("c", 3, 10, 100, TRUE) },
    { Panel("a", 1, 10, 100, FALSE), Panel("b", 2, 20, 100, TRUE), Panel("c", 3, 10, 100, TRUE) } }

\* panelsMapToSortedArray: the panels ascending by order.
RECURSIVE SortByOrder(_)
SortByOrder(ps) ==
  IF ps = {} THEN <<>>
  ELSE LET first == CHOOSE p \in ps : \A q \in ps : p.order <= q.order
       IN <<first>> \o SortByOrder(ps \ {first})

PanelsMapToSortedArray(ps) == SortByOrder(ps)

\* Array.prototype.findIndex on panel.id (1-based; ids are always present).
FindIndex(panelsArray, id) == CHOOSE i \in 1..Len(panelsArray) : panelsArray[i].id = id

\* safeResizePanel without the pointer pin of a collapsed panel (lines 252-260).
SafeResizePanelNoPin(panel, delta, prevSize, event) ==
  LET nextSizeUnsafe == prevSize + delta
  IN IF panel.collapsible /\ prevSize > 0 /\ nextSizeUnsafe <= 0 THEN 0
     ELSE Min(panel.maxSize, Max(panel.minSize, nextSizeUnsafe))

SafeResizePanel(panel, delta, prevSize, event) ==
  LET nextSizeUnsafe == prevSize + delta
  IN IF panel.collapsible /\ prevSize > 0 /\ nextSizeUnsafe <= 0 THEN 0
     ELSE IF panel.collapsible /\ ~(prevSize > 0) /\ ~IsKeyboardEvent(event)
             /\ nextSizeUnsafe < panel.minSize THEN 0
     ELSE Min(panel.maxSize, Max(panel.minSize, nextSizeUnsafe))

\* Map.prototype.set on panelSizeBeforeCollapse.
MapSet(map, id, v) == [k \in (DOMAIN map) \cup {id} |-> IF k = id THEN v ELSE map[k]]

\* deltaApplied += prevSize - nextSize (line 67).
AccumulateAbs(deltaApplied, prevSize, nextSize) == deltaApplied + Abs(prevSize - nextSize)

Accumulate(deltaApplied, prevSize, nextSize) == deltaApplied + (prevSize - nextSize)

\* The while (true) loop of adjustByDelta (lines 52-85), from index on.
RECURSIVE ShrinkWalk(_, _, _, _, _, _, _, _)
ShrinkWalk(panelsArray, event, delta, prevSizes, index, nextSizes, deltaApplied, map) ==
  LET panel == panelsArray[index]
      prevSize == prevSizes[index]
      nextSize == SafeResizePanel(panel, 0 - Abs(delta), prevSize, event)
      changed == prevSize # nextSize
      map1 == IF changed /\ nextSize = 0 /\ prevSize > 0
              THEN MapSet(map, panel.id, prevSize) ELSE map
      applied1 == IF changed THEN Accumulate(deltaApplied, prevSize, nextSize) ELSE deltaApplied
      sizes1 == IF changed THEN [nextSizes EXCEPT ![index] = nextSize] ELSE nextSizes
      out == [nextSizes |-> sizes1, deltaApplied |-> applied1, map |-> map1]
      index1 == IF delta < 0 THEN index - 1 ELSE index + 1
  IN IF changed /\ StrGeq(ToPrecision(applied1, PRECISION), ToPrecision(delta, PRECISION))
     THEN out
     ELSE IF index1 < 1 \/ index1 > Len(panelsArray) THEN out
     ELSE ShrinkWalk(panelsArray, event, delta, prevSizes, index1, sizes1, applied1, map1)

\* adjustByDelta: the returned array, whether it is prevSizes itself (same),
\* the collapse map after the call, and the pass's intermediate values.
AdjustByDelta(event, ps, idBefore, idAfter, delta, prevSizes, map) ==
  LET noop == [sizes |-> prevSizes, same |-> TRUE, map |-> map,
               pivotNext |-> 0, target |-> 0, deltaApplied |-> 0, walked |-> FALSE]
  IN IF delta = 0 THEN noop
     ELSE
       LET panelsArray == PanelsMapToSortedArray(ps)
           growId == IF delta < 0 THEN idAfter ELSE idBefore
           growIndex == FindIndex(panelsArray, growId)
           prevSize == prevSizes[growIndex]
           nextSize == SafeResizePanel(panelsArray[growIndex], Abs(delta), prevSize, event)
       IN IF prevSize = nextSize THEN noop
          ELSE
            LET map1 == IF nextSize = 0 /\ prevSize > 0
                        THEN MapSet(map, growId, prevSize) ELSE map
                delta1 == IF delta < 0 THEN prevSize - nextSize ELSE nextSize - prevSize
                startId == IF delta1 < 0 THEN idBefore ELSE idAfter
                w == ShrinkWalk(panelsArray, event, delta1, prevSizes,
                                FindIndex(panelsArray, startId), prevSizes, 0, map1)
                pivotId == IF delta1 < 0 THEN idAfter ELSE idBefore
                pivotIndex == FindIndex(panelsArray, pivotId)
            IN IF w.deltaApplied = 0
               THEN [noop EXCEPT !.map = w.map, !.pivotNext = nextSize,
                                 !.target = Abs(delta1), !.walked = TRUE]
               ELSE [sizes |-> [w.nextSizes EXCEPT
                                  ![pivotIndex] = prevSizes[pivotIndex] + w.deltaApplied],
                     same |-> FALSE, map |-> w.map, pivotNext |-> nextSize,
                     target |-> Abs(delta1), deltaApplied |-> w.deltaApplied,
                     walked |-> TRUE]

\* callPanelCallbacks: the hook invocations, in order, for prevSizes -> nextSizes.
\* prevSizes[index] is undefined when prevSizes is shorter than nextSizes (mount).
\* callPanelCallbacks testing prevSize === 0 instead of !prevSize (line 119).
CallbacksAtStrictZero(panel, prevSizes, nextSizes, index) ==
  LET nextSize == nextSizes[index]
      prevSet == index \in DOMAIN prevSizes
      differs == IF prevSet THEN prevSizes[index] # nextSize ELSE TRUE
      prevZero == IF prevSet THEN prevSizes[index] = 0 ELSE FALSE
      prevNotZero == IF prevSet THEN prevSizes[index] # 0 ELSE TRUE
  IN IF ~differs THEN <<>>
     ELSE (IF panel.onResize
           THEN <<[hook |-> "onResize", id |-> panel.id, arg |-> nextSize]>> ELSE <<>>)
          \o
          (IF ~(panel.collapsible /\ panel.onCollapse) THEN <<>>
           ELSE IF prevZero /\ nextSize # 0
                THEN <<[hook |-> "onCollapse", id |-> panel.id, arg |-> 0]>>
           ELSE IF prevNotZero /\ nextSize = 0
                THEN <<[hook |-> "onCollapse", id |-> panel.id, arg |-> 1]>>
           ELSE <<>>)

\* One iteration of nextSizes.forEach (lines 106-126); onCollapse(true) is
\* logged with arg 1 and onCollapse(false) with arg 0.
CallbacksAt(panel, prevSizes, nextSizes, index) ==
  LET nextSize == nextSizes[index]
      prevSet == index \in DOMAIN prevSizes
      differs == IF prevSet THEN prevSizes[index] # nextSize ELSE TRUE
      prevFalsy == IF prevSet THEN prevSizes[index] = 0 ELSE TRUE
      prevNotZero == IF prevSet THEN prevSizes[index] # 0 ELSE TRUE
  IN IF ~differs THEN <<>>
     ELSE (IF panel.onResize
           THEN <<[hook |-> "onResize", id |-> panel.id, arg |-> nextSize]>> ELSE <<>>)
          \o
          (IF ~(panel.collapsible /\ panel.onCollapse) THEN <<>>
           ELSE IF prevFalsy /\ nextSize # 0
                THEN <<[hook |-> "onCollapse", id |-> panel.id, arg |-> 0]>>
           ELSE IF prevNotZero /\ nextSize = 0
                THEN <<[hook |-> "onCollapse", id |-> panel.id, arg |-> 1]>>
           ELSE <<>>)

RECURSIVE CallPanelCallbacksFrom(_, _, _, _)
CallPanelCallbacksFrom(panelsArray, prevSizes, nextSizes, index) ==
  IF index > Len(nextSizes) THEN <<>>
  ELSE CallbacksAt(panelsArray[index], prevSizes, nextSizes, index)
       \o CallPanelCallbacksFrom(panelsArray, prevSizes, nextSizes, index + 1)

CallPanelCallbacks(panelsArray, prevSizes, nextSizes) ==
  CallPanelCallbacksFrom(panelsArray, prevSizes, nextSizes, 1)

\* The onCollapse hook of each panel remembers the last value it was given
\* ("none" before the first call; 1 for onCollapse(true), 0 for onCollapse(false)).
RECURSIVE Deliver(_, _)
Deliver(seen, cs) ==
  IF cs = <<>> THEN seen
  ELSE Deliver(IF Head(cs).hook = "onCollapse"
               THEN [seen EXCEPT ![Head(cs).id] = IF Head(cs).arg = 1 THEN "true" ELSE "false"]
               ELSE seen,
               Tail(cs))

\* ---------------------------------------------------------------- state machine
NoCall == [kind |-> "none"]

IsValidSize(panel, size) ==
  \/ (size = 0 /\ panel.collapsible)
  \/ (panel.minSize <= size /\ size <= panel.maxSize)

IsValidLayout(ps, layout) ==
  LET arr == PanelsMapToSortedArray(ps)
  IN /\ Len(layout) = Len(arr)
     /\ SumSeq(layout) = 100
     /\ \A i \in 1..Len(arr) : IsValidSize(arr[i], layout[i])

InitialLayouts == { <<40, 30, 30>> }

Init ==
  /\ panels \in PanelConfigs
  /\ sizes \in {l \in InitialLayouts : IsValidLayout(panels, l)}
  /\ panelSizeBeforeCollapse = <<>>
  /\ mounted = FALSE
  /\ last = NoCall
  /\ calls = <<>>
  /\ lastCollapse = [id \in Ids |-> "none"]

\* The group mounts: callPanelCallbacks with no previous sizes.
Mount ==
  /\ ~mounted
  /\ mounted' = TRUE
  /\ calls' = CallPanelCallbacks(PanelsMapToSortedArray(panels), <<>>, sizes)
  /\ lastCollapse' = Deliver(lastCollapse, calls')
  /\ UNCHANGED <<panels, sizes, panelSizeBeforeCollapse, last>>

\* The deltas of a resize event: multiples of 10 percent, either sign, and 0.
Deltas == {10 * k : k \in (0 - MaxSteps)..MaxSteps}

\* One resize event at the divider between panels k and k+1: adjustByDelta on
\* the committed layout, then callPanelCallbacks and commit when it changed.
Resize(event, k, delta) ==
  /\ mounted
  /\ \E arr \in {PanelsMapToSortedArray(panels)} :
     \E r \in {AdjustByDelta(event, panels, arr[k].id, arr[k + 1].id, delta, sizes,
                             panelSizeBeforeCollapse)} :
        /\ sizes' = r.sizes
        /\ panelSizeBeforeCollapse' = r.map
        /\ last' = [kind |-> "call", event |-> event, idBefore |-> arr[k].id,
                    idAfter |-> arr[k + 1].id, delta |-> delta, prevSizes |-> sizes,
                    prevMap |-> panelSizeBeforeCollapse, same |-> r.same,
                    pivotNext |-> r.pivotNext, target |-> r.target,
                    deltaApplied |-> r.deltaApplied, walked |-> r.walked]
        /\ calls' = IF r.same THEN <<>> ELSE CallPanelCallbacks(arr, sizes, r.sizes)
        /\ lastCollapse' = Deliver(lastCollapse, calls')
  /\ UNCHANGED <<panels, mounted>>

Next ==
  \/ Mount
  \/ \E event \in Events, k \in 1..2, delta \in Deltas : Resize(event, k, delta)

Spec == Init /\ [][Next]_vars

\* ---------------------------------------------------------------- properties
Called == last.kind = "call"

Arr == PanelsMapToSortedArray(panels)

N == Len(Arr)

\* The layout the last call was given satisfied every panel's bounds.
PrevValid == Called /\ IsValidLayout(panels, last.prevSizes)

\* Index of the panel the last call was asked to grow, and of the first
\* panel it was asked to shrink.
GrowIndex == FindIndex(Arr, IF last.delta < 0 THEN last.idAfter ELSE last.idBefore)

ShrinkIndex == FindIndex(Arr, IF last.delta < 0 THEN last.idBefore ELSE last.idAfter)

ShrinkSide == IF last.delta < 0 THEN 1..ShrinkIndex ELSE ShrinkIndex..N

GrowSideRest == (1..N) \ (ShrinkSide \cup {GrowIndex})

\* C1: the committed layout sums to 100 in every reachable state, and every
\* call returns an array with the same total as the array it was given.
C1_BudgetConservation ==
  /\ SumSeq(sizes) = 100
  /\ Called => SumSeq(sizes) = SumSeq(last.prevSizes)

\* C1 witness: a call moved size out of two shrink-side panels into the pivot.
C1_Witness ==
  /\ Called /\ ~last.same
  /\ Cardinality({i \in 1..N : sizes[i] # last.prevSizes[i]}) = 3

\* C2: from a layout within bounds, every entry of the returned array is
\* exactly 0 for a collapsible panel or within [minSize, maxSize].
C2_BoundsRespect ==
  PrevValid => \A i \in 1..N : IsValidSize(Arr[i], sizes[i])

\* C4: no shrink-side panel grows, the pivot does not shrink, and the other
\* grow-side panels keep their size.
C4_OneWayTransfer ==
  (PrevValid /\ last.delta # 0) =>
    /\ \A i \in ShrinkSide : sizes[i] <= last.prevSizes[i]
    /\ sizes[GrowIndex] >= last.prevSizes[GrowIndex]
    /\ \A i \in GrowSideRest : sizes[i] = last.prevSizes[i]

\* The panel collection mirrored: order keys reversed.
MirrorPanels(ps) == {[p EXCEPT !.order = (Cardinality(ps) + 1) - p.order] : p \in ps}

\* C5: a call with delta d yields the reverse of the call with delta -d on the
\* reversed panel sequence and sizes, idBefore and idAfter swapped.
C5_MirrorSymmetry ==
  PrevValid =>
    sizes = Reverse(AdjustByDelta(last.event, MirrorPanels(panels), last.idAfter,
                                  last.idBefore, 0 - last.delta,
                                  Reverse(last.prevSizes), last.prevMap).sizes)

\* C6: a call that returns prevSizes itself leaves panelSizeBeforeCollapse
\* with the contents it had before the call.
C6_NoPartialCommit ==
  (Called /\ last.same) => panelSizeBeforeCollapse = last.prevMap

\* C7: a collapsed collapsible pivot asked by a non-keyboard event to grow by
\* less than its minSize: the call returns prevSizes itself, nothing changes.
C7_Case ==
  /\ Called
  /\ ~IsKeyboardEvent(last.event)
  /\ Arr[GrowIndex].collapsible
  /\ last.prevSizes[GrowIndex] = 0
  /\ Abs(last.delta) < Arr[GrowIndex].minSize

C7_PointerHysteresis ==
  C7_Case =>
    /\ last.same
    /\ sizes = last.prevSizes
    /\ sizes[GrowIndex] = 0
    /\ panelSizeBeforeCollapse = last.prevMap

\* C7 witness: such a call with a non-zero delta.
C7_Witness == C7_Case /\ last.delta # 0 /\ last.same

\* C9: deltaApplied never exceeds the target fixed by the pivot's bounds
\* check, and the pivot's final size never exceeds the size that check returned.
C9_NoOverApplication ==
  (PrevValid /\ last.walked) =>
    /\ last.deltaApplied <= last.target
    /\ sizes[GrowIndex] <= last.pivotNext

\* C10: after a call that returned a new array, the map holds prevSizes[i] for
\* every panel that went from positive to 0, and every other entry is as before.
C10_CollapseMemory ==
  (Called /\ ~last.same) =>
    \A i \in 1..N :
      IF last.prevSizes[i] > 0 /\ sizes[i] = 0
      THEN /\ Arr[i].id \in DOMAIN panelSizeBeforeCollapse
           /\ panelSizeBeforeCollapse[Arr[i].id] = last.prevSizes[i]
      ELSE IF Arr[i].id \in DOMAIN last.prevMap
           THEN /\ Arr[i].id \in DOMAIN panelSizeBeforeCollapse
                /\ panelSizeBeforeCollapse[Arr[i].id] = last.prevMap[Arr[i].id]
           ELSE Arr[i].id \notin DOMAIN panelSizeBeforeCollapse

\* What a shrink-side panel can give up when asked for request: all of its
\* size where it collapses, otherwise down to its minSize.
CanGiveUp(panel, size, request) ==
  IF size <= 0 THEN 0
  ELSE IF panel.collapsible /\ size <= request THEN size
  ELSE Min(request, Max(0, size - panel.minSize))

\* What each shrink-side panel gives up, walking outward from index i, each
\* asked for what is still unfulfilled.
RECURSIVE Supply(_, _)
Supply(i, remaining) ==
  IF i < 1 \/ i > N \/ remaining <= 0 THEN <<>>
  ELSE LET g == CanGiveUp(Arr[i], last.prevSizes[i], remaining)
       IN (i :> g) @@ Supply(IF last.delta < 0 THEN i - 1 ELSE i + 1, remaining - g)

SupplyAt(i) ==
  LET sup == Supply(ShrinkIndex, Abs(last.delta))
  IN IF i \in DOMAIN sup THEN sup[i] ELSE 0

TotalSupply == SumSeq([i \in 1..N |-> SupplyAt(i)])

C3_Case ==
  /\ PrevValid /\ last.delta # 0 /\ last.walked
  /\ last.pivotNext = last.prevSizes[GrowIndex] + Abs(last.delta)
  /\ 0 < TotalSupply /\ TotalSupply < Abs(last.delta)

\* C3: when the pivot may grow by |delta| but the shrink side can supply only
\* k with 0 < k < |delta|, the pivot grows by exactly k and every shrink-side
\* panel has given up all it can.
C3_PartialFulfillment ==
  C3_Case =>
    /\ sizes[GrowIndex] = last.prevSizes[GrowIndex] + TotalSupply
    /\ \A i \in ShrinkSide : sizes[i] = last.prevSizes[i] - SupplyAt(i)

\* The previous sizes the last callPanelCallbacks was given (none on mount).
CallbackPrevSizes == IF Called THEN last.prevSizes ELSE <<>>

OnResizeCalls(id) == SelectSeq(calls, LAMBDA c : c.hook = "onResize" /\ c.id = id)

C8_OncePerChange ==
  mounted =>
    \A i \in 1..N :
      IF i \in DOMAIN CallbackPrevSizes /\ CallbackPrevSizes[i] = sizes[i]
      THEN OnResizeCalls(Arr[i].id) = <<>>
      ELSE OnResizeCalls(Arr[i].id) =
             <<[hook |-> "onResize", id |-> Arr[i].id, arg |-> sizes[i]]>>

C8_LastCollapseCurrent ==
  mounted =>
    \A i \in 1..N :
      (Arr[i].collapsible /\ Arr[i].onCollapse) =>
        lastCollapse[Arr[i].id] = (IF sizes[i] = 0 THEN "true" ELSE "false")

C8_NoRepeat ==
  \A j \in 1..Len(calls') :
    calls'[j].hook = "onCollapse" =>
      lastCollapse[calls'[j].id] # (IF calls'[j].arg = 1 THEN "true" ELSE "false")

\* C8: each callPanelCallbacks gives a panel onResize(next) exactly once when
\* its size changed and nothing when it did not; consecutive onCollapse calls
\* of a panel never carry the same value, and the last one delivered tells
\* whether the panel's current size is 0.
C8_CollapseNotification ==
  /\ [](C8_OncePerChange /\ C8_LastCollapseCurrent)
  /\ [][C8_NoRepeat]_vars

\* C8 witness: a resize expanded a collapsed panel (onCollapse(false)) while
\* another panel kept its size.
C8_Witness ==
  /\ Called
  /\ \E j \in 1..Len(calls) : calls[j].hook = "onCollapse" /\ calls[j].arg = 0
  /\ \E i \in 1..N : sizes[i] = last.prevSizes[i]

====
